---------------------------- MODULE Spec2Model ----------------------------
(***************************************************************************)
(* A model of the composite-message codec (composite_message.c): the       *)
(* writer and the reader state machines over a byte buffer, the tag codec  *)
(* and the endianness conversion pass.                                     *)
(*                                                                         *)
(* Memory is a function from 0-based byte indices to bytes.  A buffer of   *)
(* capacity n is modelled with GuardBytes further bytes of adjacent        *)
(* memory behind it, so that an access at an index >= n is a step of the   *)
(* model (it sets the ghost field oob); an access behind that memory is a  *)
(* fault that ends the program (ghost field fault).                        *)
(* uint32_t quantities that can leave the range of the model checker's     *)
(* integers are pairs <<hi, lo>> of 16-bit limbs with arithmetic modulo    *)
(* 2^32.  The host is little-endian.                                       *)
(***************************************************************************)
EXTENDS Integers, Sequences, FiniteSets, TLC

VARIABLES writer, reader, raw, mode, foreign, log, got, ret, calls, last

vars == <<writer, reader, raw, mode, foreign, log, got, ret, calls, last>>

(***************************************************************************)
(* Bounds of the model.                                                    *)
(***************************************************************************)
\* largest buffer capacity a writer is created over
MaxCap == 11
\* number of write calls on a writer, and of read calls on a reader
MaxOps == 2

\* bytes of adjacent memory modelled behind a buffer or a message
GuardBytes == 2

(***************************************************************************)
(* Program constants.                                                      *)
(***************************************************************************)
CM_ERROR_NONE == 0
CM_ERROR_NO_ENDIAN == 1
CM_ERROR_NO_SPACE == 2
CM_ERROR_NO_VALUE == 3
CM_ERROR_INVALID_ARG == 4

CM_TYPE_UINT == 4
CM_TYPE_INT == 8
CM_TYPE_FLOAT == 12
CM_TYPE_BOOL == 16
CM_TYPE_CHAR == 20

CM_TYPE_MASK == 28
CM_TYPE_LEN_MASK == 3
CM_ARRAY == 64
CM_VERSION == 131

\* the bytes of ENDIAN_MARK 0x0709 as a little-endian host stores it, and of
\* ENDIAN_INV_MARK 0x0907
ENDIAN_MARK == <<9, 7>>
ENDIAN_INV_MARK == <<7, 9>>

(***************************************************************************)
(* Bit operations on uint8_t.                                              *)
(***************************************************************************)
Pow2(n) == IF n = 0 THEN 1 ELSE IF n = 1 THEN 2 ELSE IF n = 2 THEN 4
           ELSE IF n = 3 THEN 8 ELSE IF n = 4 THEN 16 ELSE IF n = 5 THEN 32
           ELSE IF n = 6 THEN 64 ELSE 128

Bit(x, i) == (x \div Pow2(i)) % 2

BitOr(a, b) ==
    LET B(i) == IF Bit(a, i) = 1 \/ Bit(b, i) = 1 THEN Pow2(i) ELSE 0
    IN  B(0) + B(1) + B(2) + B(3) + B(4) + B(5) + B(6) + B(7)

BitAnd(a, b) ==
    LET B(i) == IF Bit(a, i) = 1 /\ Bit(b, i) = 1 THEN Pow2(i) ELSE 0
    IN  B(0) + B(1) + B(2) + B(3) + B(4) + B(5) + B(6) + B(7)

(***************************************************************************)
(* uint32_t as <<hi, lo>>, two 16-bit limbs; arithmetic is modulo 2^32.    *)
(***************************************************************************)
Limb == 65536

U32(n) == <<(n \div Limb) % Limb, n % Limb>>

U32Max == <<65535, 65535>>

\* defined for values below 2^31 only
U32ToNat(a) == a[1] * Limb + a[2]

\* below 2^16, far above the size of the modelled memory
U32IsSmall(a) == a[1] = 0

U32Add(a, b) ==
    LET lo == a[2] + b[2]
    IN  <<(a[1] + b[1] + lo \div Limb) % Limb, lo % Limb>>

U32Sub(a, b) ==
    LET lo == a[2] - b[2]
        borrow == IF lo < 0 THEN 1 ELSE 0
    IN  <<(a[1] - b[1] - borrow + 2 * Limb) % Limb, (lo + Limb) % Limb>>

\* a * k for 0 <= k <= 255
U32Mul(a, k) ==
    LET lo == a[2] * k
    IN  <<(a[1] * k + lo \div Limb) % Limb, lo % Limb>>

U32Less(a, b) == a[1] < b[1] \/ (a[1] = b[1] /\ a[2] < b[2])

\* the object representation of a uint32_t on the little-endian host
U32Bytes(a) == <<a[2] % 256, a[2] \div 256, a[1] % 256, a[1] \div 256>>

U32FromBytes(b) == <<b[3] + 256 * b[4], b[1] + 256 * b[2]>>

(***************************************************************************)
(* Tag codec.                                                              *)
(***************************************************************************)
\* a variant of getTypeFlag that gives length 4 the code of length 8
getTypeFlag_len4as8(type, len) ==
    IF len = 2 THEN BitOr(type, 1)
    ELSE IF len = 4 THEN BitOr(type, 3)
    ELSE IF len = 8 THEN BitOr(type, 3)
    ELSE IF len # 1 THEN 0
    ELSE type

getTypeFlag(type, len) ==
    IF len = 2 THEN BitOr(type, 1)
    ELSE IF len = 4 THEN BitOr(type, 2)
    ELSE IF len = 8 THEN BitOr(type, 3)
    ELSE IF len # 1 THEN 0
    ELSE type

\* splitTypeFlag, its two outputs
splitTypeFlagLen(flag) == Pow2(BitAnd(flag, CM_TYPE_LEN_MASK))

splitTypeFlagType(flag) == BitAnd(flag, CM_TYPE_MASK)

isSingleValue(flag) == (flag \div 32) = 0 /\ flag > 0

isArray(flag) == (flag \div 32) = 2

isVersion(flag) == flag = CM_VERSION

(***************************************************************************)
(* Memory and caller data.  The modelled memory of a buffer is the buffer  *)
(* and GuardBytes bytes behind it; an access outside the modelled memory   *)
(* is a fault, which ends the program.                                     *)
(***************************************************************************)
\* memory of n bytes, all holding b
Mem(n, b) == [i \in 0..(n - 1) |-> b]

\* the memory holding the byte sequence s, then g bytes holding b
MemOf(s, g, b) ==
    [i \in 0..(Len(s) + g - 1) |-> IF i < Len(s) THEN s[i + 1] ELSE b]

\* the number of bytes of memory m
MemLen(m) == Cardinality(DOMAIN m)

\* the n bytes from index i on are modelled memory
InMem(m, i, n) == i >= 0 /\ i + n <= MemLen(m)

Store(m, i, b) == [m EXCEPT ![i] = b]

Load(m, i) == m[i]

\* the n bytes of memory m from index i on, as a sequence
Slice(m, i, n) == [k \in 1..n |-> Load(m, i + k - 1)]

\* The caller's data behind a const void *: the object representation of one
\* value (bytes), or an array too long to write out, given by a pattern: byte
\* k of pattern 1 is k + 1, of pattern 2 is 250 - k (modulo 256).
Value(bytes) == [pat |-> 0, bytes |-> bytes]

Pattern(p) == [pat |-> p, bytes |-> <<>>]

DataByte(data, k) ==
    IF data.pat = 0 THEN data.bytes[k + 1]
    ELSE IF data.pat = 1 THEN (k + 1) % 256
    ELSE (250 + 256 - (k % 256)) % 256

DataBytes(data, n) == [k \in 1..n |-> DataByte(data, k - 1)]

\* a writer or a reader whose call left the modelled memory
Faulted(x) == [x EXCEPT !.oob = TRUE, !.fault = TRUE]

(***************************************************************************)
(* Writer.  A writer is the struct CompositeMessageWriter, with the ghost  *)
(* fields oob: some store went to an index >= bufferSize; and fault: a     *)
(* store left the modelled memory and ended the program.                   *)
(***************************************************************************)
\* a variant of cmGetWriter that stores the marker in a buffer of 1 byte too
cmGetWriter_markFromOne(buffer, size) ==
    LET w == [buffer |-> buffer, bufferSize |-> size, usedSize |-> 0,
              firstError |-> CM_ERROR_NONE, oob |-> FALSE, fault |-> FALSE]
    IN  IF size < 1 THEN [w EXCEPT !.firstError = CM_ERROR_NO_SPACE]
        ELSE [w EXCEPT !.buffer = Store(Store(@, 0, ENDIAN_MARK[1]),
                                        1, ENDIAN_MARK[2]),
                       !.usedSize = 2]

cmGetWriter(buffer, size) ==
    LET w == [buffer |-> buffer, bufferSize |-> size, usedSize |-> 0,
              firstError |-> CM_ERROR_NONE, oob |-> FALSE, fault |-> FALSE]
    IN  IF size < 2 THEN [w EXCEPT !.firstError = CM_ERROR_NO_SPACE]
        ELSE [w EXCEPT !.buffer = Store(Store(@, 0, ENDIAN_MARK[1]),
                                        1, ENDIAN_MARK[2]),
                       !.usedSize = 2]

\* a variant of ensureSpace without the test of firstError
ensureSpace_noErrorCheck(w, size) ==
    IF U32Less(U32Sub(U32(w.bufferSize), U32(w.usedSize)), size)
    THEN [ok |-> FALSE, w |-> [w EXCEPT !.firstError = CM_ERROR_NO_SPACE]]
    ELSE [ok |-> TRUE, w |-> w]

ensureSpace(w, size) ==
    IF w.firstError # CM_ERROR_NONE THEN [ok |-> FALSE, w |-> w]
    ELSE IF U32Less(U32Sub(U32(w.bufferSize), U32(w.usedSize)), size)
    THEN [ok |-> FALSE, w |-> [w EXCEPT !.firstError = CM_ERROR_NO_SPACE]]
    ELSE [ok |-> TRUE, w |-> w]

\* writer->buffer[i] = b, a store the code does not guard
PutByte(w, i, b) ==
    IF w.fault THEN w
    ELSE IF ~InMem(w.buffer, i, 1) THEN Faulted(w)
    ELSE [w EXCEPT !.buffer = Store(@, i, b), !.oob = @ \/ i >= w.bufferSize]

\* writer->usedSize++
IncUsedSize(w) == IF w.fault THEN w ELSE [w EXCEPT !.usedSize = @ + 1]

writeBytes(w, data, size) ==
    LET e == ensureSpace(w, size)
        u == e.w.usedSize
    IN  IF w.fault THEN [ok |-> FALSE, w |-> w]
        ELSE IF ~e.ok THEN e
        ELSE IF ~U32IsSmall(size) \/ ~InMem(e.w.buffer, u, U32ToNat(size))
        THEN [ok |-> TRUE, w |-> Faulted(e.w)]
        ELSE LET n == U32ToNat(size)
             IN  [ok |-> TRUE,
                  w |-> [e.w EXCEPT
                           !.buffer = [i \in DOMAIN @ |->
                                         IF i >= u /\ i < u + n
                                         THEN DataByte(data, i - u)
                                         ELSE @[i]],
                           !.oob = @ \/ u + n > e.w.bufferSize,
                           !.usedSize = u + n]]

\* a variant of writeValue that asks for the space of the value only
writeValue_spaceForValueOnly(w, val, len, type) ==
    IF w.firstError # CM_ERROR_NONE THEN [ok |-> FALSE, w |-> w]
    ELSE LET e == ensureSpace(w, U32(len))
             flag == getTypeFlag(type, len)
         IN  IF ~e.ok THEN e
             ELSE IF flag = 0
             THEN [ok |-> FALSE,
                   w |-> [e.w EXCEPT !.firstError = CM_ERROR_INVALID_ARG]]
             ELSE LET w1 == IncUsedSize(PutByte(e.w, e.w.usedSize, flag))
                  IN  [ok |-> TRUE, w |-> writeBytes(w1, val, U32(len)).w]

writeValue(w, val, len, type) ==
    IF w.firstError # CM_ERROR_NONE THEN [ok |-> FALSE, w |-> w]
    ELSE LET e == ensureSpace(w, U32(1 + len))
             flag == getTypeFlag(type, len)
         IN  IF ~e.ok THEN e
             ELSE IF flag = 0
             THEN [ok |-> FALSE,
                   w |-> [e.w EXCEPT !.firstError = CM_ERROR_INVALID_ARG]]
             ELSE LET w1 == IncUsedSize(PutByte(e.w, e.w.usedSize, flag))
                  IN  [ok |-> TRUE, w |-> writeBytes(w1, val, U32(len)).w]

\* cmWriteI8 .. cmWriteChar: the typed wrappers pass the address and the size
\* of their argument and their type code
cmWriteScalar(w, type, len, val) == writeValue(w, Value(val), len, type).w

cmWriteTypedArray(w, itemType, itemSize, data, itemCount) ==
    IF itemSize > 8 \/ itemSize = 0
    THEN [w EXCEPT !.firstError = CM_ERROR_INVALID_ARG]
    ELSE IF itemType > 20 \/ itemType < 4
    THEN [w EXCEPT !.firstError = CM_ERROR_INVALID_ARG]
    ELSE
    LET flag == getTypeFlag(BitOr(CM_ARRAY, itemType), itemSize)
        count == IF itemType = CM_TYPE_CHAR THEN U32Add(itemCount, U32(1))
                 ELSE itemCount
        e == ensureSpace(w, U32Add(U32(1 + 4), U32Mul(count, itemSize)))
    IN  IF ~e.ok THEN e.w
        ELSE
        LET w1 == IncUsedSize(PutByte(e.w, e.w.usedSize, flag))
            w2 == writeBytes(w1, Value(U32Bytes(count)), U32(4)).w
        IN  IF itemType = CM_TYPE_CHAR
            THEN LET w3 == writeBytes(w2, data,
                               U32Mul(U32Sub(count, U32(1)), itemSize)).w
                 IN  IncUsedSize(PutByte(w3, w3.usedSize, 0))
            ELSE writeBytes(w2, data, U32Mul(count, itemSize)).w

\* a variant of cmWriteVersion that patches the tag whatever firstError is
cmWriteVersion_patchAlways(w, ver) ==
    LET w1 == cmWriteScalar(w, CM_TYPE_UINT, 4, ver)
    IN  PutByte(w1, w1.usedSize - 4 - 1, CM_VERSION)

\* a variant of cmWriteVersion that patches the byte before the tag
cmWriteVersion_patchBefore(w, ver) ==
    LET w1 == cmWriteScalar(w, CM_TYPE_UINT, 4, ver)
    IN  IF w1.firstError = CM_ERROR_NONE
        THEN PutByte(w1, w1.usedSize - 4 - 2, CM_VERSION)
        ELSE w1

cmWriteVersion(w, ver) ==
    LET w1 == cmWriteScalar(w, CM_TYPE_UINT, 4, ver)
    IN  IF w1.firstError = CM_ERROR_NONE
        THEN PutByte(w1, w1.usedSize - 4 - 1, CM_VERSION)
        ELSE w1

(***************************************************************************)
(* Endianness conversion.                                                  *)
(***************************************************************************)
\* inverseByteOrder(&m[d], size)
inverseByteOrder(m, d, size) ==
    [i \in DOMAIN m |->
       IF i >= d /\ i < d + size THEN Load(m, 2 * d + size - 1 - i) ELSE m[i]]

\* the for loop of convertEndianness over k items: inverseByteOrder on each
\* of k consecutive items of itemLen bytes from index d on
inverseItems(m, d, itemLen, k) ==
    [i \in DOMAIN m |->
       IF i >= d /\ i < d + k * itemLen
       THEN Load(m, d + ((i - d) \div itemLen) * itemLen
                      + itemLen - 1 - ((i - d) % itemLen))
       ELSE m[i]]

\* The while loop of convertEndianness with d at index d of memory m, size
\* bytes left (a negative size stands for the uint32_t 2^32 + size the
\* decrement wrapped to) and the converted span ending at index end.
\* The result: ok, the return value; m, the memory; oob, whether a byte at an
\* index >= end was accessed; fault, whether the pass left the modelled
\* memory.
RECURSIVE convertLoop(_, _, _, _, _)
convertLoop(m, d, size, end, oob) ==
    IF size = 0 THEN [ok |-> TRUE, m |-> m, oob |-> oob, fault |-> FALSE]
    ELSE IF ~InMem(m, d, 1)
    THEN [ok |-> FALSE, m |-> m, oob |-> TRUE, fault |-> TRUE]
    ELSE
    LET flag == Load(m, d)
        len1 == Pow2(BitAnd(flag, CM_TYPE_LEN_MASK))
        d1 == d + 1
        o1 == oob \/ d >= end
    IN  IF isArray(flag)
        THEN IF ~InMem(m, d1, 4)
             THEN [ok |-> FALSE, m |-> m, oob |-> TRUE, fault |-> TRUE]
             ELSE
             LET m1 == inverseByteOrder(m, d1, 4)
                 itemCount == U32FromBytes(Slice(m1, d1, 4))
                 d2 == d1 + 4
                 fit == (MemLen(m) - d2) \div len1
                 o2 == o1 \/ d2 > end
             IN  IF U32Less(U32(fit), itemCount)
                 THEN [ok |-> FALSE, m |-> inverseItems(m1, d2, len1, fit),
                       oob |-> TRUE, fault |-> TRUE]
                 ELSE LET k == U32ToNat(itemCount)
                      IN  convertLoop(inverseItems(m1, d2, len1, k),
                                      d2 + k * len1,
                                      size - 1 - 4 - k * len1,
                                      end, o2 \/ d2 + k * len1 > end)
        ELSE IF isVersion(flag) \/ isSingleValue(flag)
        THEN LET itemLen == IF isVersion(flag) THEN 4 ELSE len1
             IN  IF ~InMem(m, d1, itemLen)
                 THEN [ok |-> FALSE, m |-> m, oob |-> TRUE, fault |-> TRUE]
                 ELSE convertLoop(inverseByteOrder(m, d1, itemLen),
                                  d1 + itemLen, size - 1 - itemLen,
                                  end, o1 \/ d1 + itemLen > end)
        ELSE [ok |-> FALSE, m |-> m, oob |-> o1, fault |-> FALSE]

\* convertEndianness(&m[d], size)
convertEndianness(m, d, size) == convertLoop(m, d, size, d + size, FALSE)

(***************************************************************************)
(* Reader.  A reader is the struct CompositeMessageReader, with the ghost  *)
(* fields oob: some access went to an index >= totalSize; and fault: an    *)
(* access left the modelled memory and ended the program.  Where           *)
(* convertEndianness leaves the modelled memory, crash says whether that   *)
(* ends the program or the pass meets an unknown flag there and returns    *)
(* false.                                                                  *)
(***************************************************************************)
\* a variant of cmGetReader that converts a message with either marker
cmGetReader_convertNative(message, size, crash) ==
    LET r == [message |-> message, totalSize |-> size, readSize |-> 0,
              firstError |-> CM_ERROR_NONE, oob |-> size < 2,
              fault |-> FALSE]
        e == Slice(message, 0, 2)
    IN  IF ~InMem(message, 0, 2) THEN Faulted(r)
        ELSE IF size < 2 \/ (e # ENDIAN_MARK /\ e # ENDIAN_INV_MARK)
        THEN [r EXCEPT !.firstError = CM_ERROR_NO_ENDIAN]
        ELSE LET c == convertEndianness(message, 2, size - 2)
                 r1 == [r EXCEPT !.message = c.m, !.oob = c.oob]
             IN  IF c.fault /\ crash THEN Faulted(r1)
                 ELSE IF ~c.ok
                 THEN [r1 EXCEPT !.firstError = CM_ERROR_NO_ENDIAN]
                 ELSE [r1 EXCEPT !.readSize = 2]

cmGetReader(message, size, crash) ==
    LET r == [message |-> message, totalSize |-> size, readSize |-> 0,
              firstError |-> CM_ERROR_NONE, oob |-> size < 2,
              fault |-> FALSE]
        e == Slice(message, 0, 2)
    IN  IF ~InMem(message, 0, 2) THEN Faulted(r)
        ELSE IF size < 2 \/ (e # ENDIAN_MARK /\ e # ENDIAN_INV_MARK)
        THEN [r EXCEPT !.firstError = CM_ERROR_NO_ENDIAN]
        ELSE IF e # ENDIAN_MARK
        THEN LET c == convertEndianness(message, 2, size - 2)
                 r1 == [r EXCEPT !.message = c.m, !.oob = c.oob]
             IN  IF c.fault /\ crash THEN Faulted(r1)
                 ELSE IF ~c.ok
                 THEN [r1 EXCEPT !.firstError = CM_ERROR_NO_ENDIAN]
                 ELSE [r1 EXCEPT !.readSize = 2]
        ELSE [r EXCEPT !.readSize = 2]

\* the value a call returns: n, a uint32_t result (a count, a version, 0 for
\* a scalar read); bytes, the object representation of a scalar result, or
\* the bytes copied to the destination of an array read
Ret(n, bytes) == [n |-> n, bytes |-> bytes]

Zeros(len) == [k \in 1..len |-> 0]

\* a variant of checkValue without the test of firstError
checkValue_noErrorCheck(r, type, size) ==
    IF r.readSize + 1 + size > r.totalSize \/ Load(r.message, r.readSize) # type
    THEN [ok |-> FALSE, r |-> [r EXCEPT !.firstError = CM_ERROR_NO_VALUE]]
    ELSE [ok |-> TRUE, r |-> r]

\* a variant of checkValue that does not compare the tag
checkValue_sizeOnly(r, type, size) ==
    IF r.firstError # CM_ERROR_NONE THEN [ok |-> FALSE, r |-> r]
    ELSE IF r.readSize + 1 + size > r.totalSize
    THEN [ok |-> FALSE, r |-> [r EXCEPT !.firstError = CM_ERROR_NO_VALUE]]
    ELSE [ok |-> TRUE, r |-> r]

checkValue(r, type, size) ==
    IF r.firstError # CM_ERROR_NONE THEN [ok |-> FALSE, r |-> r]
    ELSE IF r.readSize + 1 + size > r.totalSize
            \/ Load(r.message, r.readSize) # type
    THEN [ok |-> FALSE, r |-> [r EXCEPT !.firstError = CM_ERROR_NO_VALUE]]
    ELSE [ok |-> TRUE, r |-> r]

\* a variant of readValue that compares the stored length only
readValue_lenOnly(r, val, len, type) ==
    IF r.firstError # CM_ERROR_NONE THEN [ok |-> FALSE, r |-> r, val |-> val]
    ELSE IF U32Less(U32Sub(U32(r.totalSize), U32(r.readSize)), U32(len))
    THEN [ok |-> FALSE, r |-> [r EXCEPT !.firstError = CM_ERROR_NO_VALUE],
          val |-> val]
    ELSE IF ~InMem(r.message, r.readSize, 1 + len)
    THEN [ok |-> FALSE, r |-> Faulted(r), val |-> val]
    ELSE IF len # splitTypeFlagLen(Load(r.message, r.readSize))
    THEN [ok |-> FALSE, r |-> [r EXCEPT !.firstError = CM_ERROR_NO_VALUE],
          val |-> val]
    ELSE [ok |-> TRUE,
          r |-> [r EXCEPT !.readSize = @ + 1 + len,
                          !.oob = @ \/ r.readSize + 1 + len > r.totalSize],
          val |-> Slice(r.message, r.readSize + 1, len)]

\* val is what the caller's variable holds before the call
readValue(r, val, len, type) ==
    IF r.firstError # CM_ERROR_NONE THEN [ok |-> FALSE, r |-> r, val |-> val]
    ELSE IF U32Less(U32Sub(U32(r.totalSize), U32(r.readSize)), U32(len))
    THEN [ok |-> FALSE, r |-> [r EXCEPT !.firstError = CM_ERROR_NO_VALUE],
          val |-> val]
    ELSE IF ~InMem(r.message, r.readSize, 1)
    THEN [ok |-> FALSE, r |-> Faulted(r), val |-> val]
    ELSE
    LET flag == Load(r.message, r.readSize)
        typeStored == splitTypeFlagType(flag)
        lenStored == splitTypeFlagLen(flag)
        r1 == [r EXCEPT !.oob = @ \/ r.readSize >= r.totalSize]
    IN  IF typeStored # type \/ len # lenStored
        THEN [ok |-> FALSE,
              r |-> [r1 EXCEPT !.firstError = CM_ERROR_NO_VALUE],
              val |-> val]
        ELSE IF ~InMem(r.message, r.readSize + 1, len)
        THEN [ok |-> FALSE, r |-> Faulted(r1), val |-> val]
        ELSE [ok |-> TRUE,
              r |-> [r1 EXCEPT !.readSize = @ + 1 + len,
                               !.oob = @ \/ r.readSize + 1 + len > r.totalSize],
              val |-> Slice(r.message, r.readSize + 1, len)]

\* cmReadI8 .. cmReadChar: val = 0; readValue(reader, &val, sizeof(val), type);
\* return val
cmReadScalar(r, type, len) ==
    LET x == readValue(r, Zeros(len), len, type)
    IN  [r |-> x.r, ret |-> Ret(U32(0), x.val)]

\* a variant of cmPeekArraySize without the test of firstError
cmPeekArraySize_noErrorCheck(r) ==
    IF r.readSize + 1 + 4 > r.totalSize
       \/ BitAnd(Load(r.message, r.readSize), CM_ARRAY) = 0
    THEN [r |-> [r EXCEPT !.firstError = CM_ERROR_NO_VALUE], n |-> U32(0)]
    ELSE [r |-> r, n |-> U32FromBytes(Slice(r.message, r.readSize + 1, 4))]

\* a variant of cmPeekArraySize that steps over the tag
cmPeekArraySize_advance(r) ==
    IF r.firstError # CM_ERROR_NONE THEN [r |-> r, n |-> U32(0)]
    ELSE IF r.readSize + 1 + 4 > r.totalSize
            \/ BitAnd(Load(r.message, r.readSize), CM_ARRAY) = 0
    THEN [r |-> [r EXCEPT !.firstError = CM_ERROR_NO_VALUE], n |-> U32(0)]
    ELSE [r |-> [r EXCEPT !.readSize = @ + 1],
          n |-> U32FromBytes(Slice(r.message, r.readSize + 1, 4))]

cmPeekArraySize(r) ==
    IF r.firstError # CM_ERROR_NONE THEN [r |-> r, n |-> U32(0)]
    ELSE IF r.readSize + 1 + 4 > r.totalSize
            \/ BitAnd(Load(r.message, r.readSize), CM_ARRAY) = 0
    THEN [r |-> [r EXCEPT !.firstError = CM_ERROR_NO_VALUE], n |-> U32(0)]
    ELSE [r |-> r, n |-> U32FromBytes(Slice(r.message, r.readSize + 1, 4))]

cmReadTypedArray(r, itemType, itemSize, maxItems) ==
    IF itemSize > 8 \/ itemSize = 0
    THEN [r |-> [r EXCEPT !.firstError = CM_ERROR_INVALID_ARG],
          ret |-> Ret(U32(0), <<>>)]
    ELSE IF itemType > 20 \/ itemType < 4
    THEN [r |-> [r EXCEPT !.firstError = CM_ERROR_INVALID_ARG],
          ret |-> Ret(U32(0), <<>>)]
    ELSE
    LET flag == getTypeFlag(BitOr(CM_ARRAY, itemType), itemSize)
        p == cmPeekArraySize(r)
        arraySize == p.n
        size == U32Mul(arraySize, itemSize)
        start == p.r.readSize + 1 + 4
    IN  IF p.r.firstError # CM_ERROR_NONE
        THEN [r |-> p.r, ret |-> Ret(U32(0), <<>>)]
        ELSE IF Load(p.r.message, p.r.readSize) # flag
        THEN [r |-> [p.r EXCEPT !.firstError = CM_ERROR_NO_VALUE],
              ret |-> Ret(U32(0), <<>>)]
        ELSE IF U32Less(maxItems, arraySize)
        THEN [r |-> [p.r EXCEPT !.firstError = CM_ERROR_NO_SPACE],
              ret |-> Ret(U32(0), <<>>)]
        ELSE IF ~U32IsSmall(size) \/ ~InMem(p.r.message, start, U32ToNat(size))
        THEN [r |-> Faulted(p.r), ret |-> Ret(U32(0), <<>>)]
        ELSE LET n == U32ToNat(size)
             IN  [r |-> [p.r EXCEPT !.readSize = start + n,
                                    !.oob = @ \/ start + n > p.r.totalSize],
                  ret |-> Ret(arraySize, Slice(p.r.message, start, n))]

cmPeekStringLength(r) ==
    LET p == cmPeekArraySize(r)
    IN  IF p.r.firstError # CM_ERROR_NONE THEN [r |-> p.r, n |-> U32(0)]
        ELSE IF splitTypeFlagType(Load(p.r.message, p.r.readSize))
                   # CM_TYPE_CHAR
                \/ p.n = U32(0)
        THEN [r |-> [p.r EXCEPT !.firstError = CM_ERROR_NO_VALUE],
              n |-> U32(0)]
        ELSE [r |-> p.r, n |-> U32Sub(p.n, U32(1))]

cmReadVersion(r) ==
    LET c == checkValue(r, CM_VERSION, 4)
    IN  IF ~c.ok THEN [r |-> c.r, ret |-> Ret(U32(0), <<>>)]
        ELSE [r |-> [c.r EXCEPT !.readSize = @ + 1 + 4],
              ret |-> Ret(U32FromBytes(Slice(c.r.message, c.r.readSize + 1, 4)),
                          <<>>)]

(***************************************************************************)
(* The calls the model makes.                                              *)
(***************************************************************************)
\* type code and size of cmWriteI8/cmReadI8 .. cmWriteChar/cmReadChar
Scalars ==
    {<<CM_TYPE_INT, 1>>, <<CM_TYPE_UINT, 1>>, <<CM_TYPE_INT, 2>>,
     <<CM_TYPE_UINT, 2>>, <<CM_TYPE_INT, 4>>, <<CM_TYPE_UINT, 4>>,
     <<CM_TYPE_INT, 8>>, <<CM_TYPE_UINT, 8>>, <<CM_TYPE_FLOAT, 4>>,
     <<CM_TYPE_FLOAT, 8>>, <<CM_TYPE_BOOL, 1>>, <<CM_TYPE_CHAR, 1>>}

\* object representations written: for a type, a value with all bytes
\* different (1, 2, .. in memory order) and its least or its greatest value
Ascending(len) == [k \in 1..len |-> k]

Filled(len, b, top) == [k \in 1..len |-> IF k = len THEN top ELSE b]

ScalarValues(type, len) ==
    IF type = CM_TYPE_BOOL THEN {<<0>>, <<1>>}
    ELSE IF type = CM_TYPE_INT
    THEN {Ascending(len), Filled(len, 0, 128)}
    ELSE IF type = CM_TYPE_FLOAT
    THEN {Ascending(len), Filled(len, 255, 127)}
    ELSE IF type = CM_TYPE_CHAR
    THEN {Ascending(len), Zeros(len)}
    ELSE {Ascending(len), Filled(len, 255, 255)}

\* arguments of the typed array calls: type codes below, in and above the
\* accepted range 0x04..0x14, item sizes 0..9, counts up to 2^32 - 1
ItemTypes == {3, CM_TYPE_UINT, CM_TYPE_CHAR, 21}

ItemSizes == {0, 1, 2, 3, 4, 8, 9}

ItemCounts == {U32(0), U32(1), U32(2), <<32768, 0>>, <<65535, 65531>>, U32Max}

DataPatterns == {Pattern(1)}

Versions == {<<157, 0, 0, 0>>, <<255, 255, 255, 255>>}

\* arguments of an array read on a message not written here
ReadItemTypes == {3, CM_TYPE_UINT, CM_TYPE_CHAR}

ReadItemSizes == {0, 1, 2, 3, 9}

MaxItemsRead == {U32(1), U32(3)}

\* a written field: what was passed, and the bytes [off, end) it took
Field(kind, type, size, count, data, off, end) ==
    [kind |-> kind, type |-> type, size |-> size, count |-> count,
     data |-> data, off |-> off, end |-> end]

\* the count a typed array write stores
StoredCount(f) ==
    IF f.type = CM_TYPE_CHAR THEN U32Add(f.count, U32(1)) ELSE f.count

NoWriter == cmGetWriter(Mem(0, 0), 0)

NoReader == [message |-> Mem(0, 0), totalSize |-> 0, readSize |-> 0,
             firstError |-> CM_ERROR_NONE, oob |-> FALSE, fault |-> FALSE]

NoRaw == [message |-> Mem(0, 0), size |-> 0]

NoRet == Ret(U32(0), <<>>)

Call(op, w, r) == [op |-> op, werr |-> w.firstError, rerr |-> r.firstError]

(***************************************************************************)
(* Messages a reader is created over that no writer of the model wrote:    *)
(* a marker (native, inverse, neither), up to two fields, the last bytes   *)
(* cut off, and bytes of either of two values in the memory behind it.     *)
(***************************************************************************)
CraftedFields ==
    {<<8, 5>>,                          \* int8
     <<6, 1, 2, 3, 4>>,                 \* uint32
     <<68, 2, 0, 0, 0, 10, 11>>,        \* uint8[2]
     <<68, 0, 0, 0, 2, 10, 11>>,        \* uint8[2], count in inverse order
     <<68, 3, 0, 0, 0, 10>>,            \* uint8[3] holding one item
     <<69, 1, 0, 0, 0, 1, 2>>,          \* uint16[1]
     <<84, 2, 0, 0, 0, 65, 0>>,         \* char[2], a string of length 1
     <<84, 0, 0, 0, 0>>,                \* char[0]
     <<68, 255, 255, 255, 255>>,        \* uint8[2^32 - 1] holding no item
     <<131, 157, 0, 0, 0>>,             \* version
     <<40, 5>>,                         \* int8 without value (null)
     <<135>>,                           \* an extension flag
     <<1, 1, 2>>,                       \* 2 bytes of no type (type bits 0)
     <<24, 5>>,                         \* 1 byte of a type code not in use
     <<0>>}                             \* end of message

LeadFields == {<<8, 5>>, <<68, 2, 0, 0, 0, 10, 11>>, <<131, 157, 0, 0, 0>>}

CraftedBodies ==
    {<<>>} \cup CraftedFields
    \cup {f \o g : f \in LeadFields, g \in CraftedFields}

CraftedMessages ==
    {SubSeq(mk \o b, 1, Len(mk \o b) - cut) :
        mk \in {ENDIAN_MARK, ENDIAN_INV_MARK}, b \in CraftedBodies,
        cut \in 0..2}
    \cup {<<0, 0>>, <<0, 0, 8, 5>>, <<9, 9>>}

(***************************************************************************)
(* The byte-swapped copy of a written message: what a producer of the      *)
(* other byte order would have sent.                                       *)
(***************************************************************************)
RECURSIVE SwapFields(_, _, _)
SwapFields(m, fields, i) ==
    IF i > Len(fields) THEN m
    ELSE LET f == fields[i]
             m1 == IF f.kind = "array"
                   THEN inverseItems(inverseByteOrder(m, f.off + 1, 4),
                                     f.off + 5, f.size,
                                     (f.end - f.off - 5) \div f.size)
                   ELSE inverseByteOrder(m, f.off + 1, f.size)
         IN  SwapFields(m1, fields, i + 1)

SwapMessage(m, fields) == SwapFields(inverseByteOrder(m, 0, 2), fields, 1)

(***************************************************************************)
(* State machine.  mode "write": a writer takes write calls; "replay": a   *)
(* reader over the message written (foreign: over its byte-swapped copy)   *)
(* takes the read calls matching the write calls; "raw": a crafted message *)
(* waits for its reader; "read": that reader takes any read calls;         *)
(* "stray": a replaying reader made a call that does not match the field   *)
(* written and takes no more calls.                                        *)
(* log holds the fields written, got the values the replay returned, ret   *)
(* the value the last read call returned, calls the number of calls made   *)
(* on the writer or the reader, last the last call and the errors before   *)
(* it.  The memory a writer is created over holds 0xAA in every byte.      *)
(***************************************************************************)
Init ==
    /\ reader = NoReader
    /\ foreign = FALSE
    /\ log = <<>>
    /\ got = <<>>
    /\ ret = NoRet
    /\ calls = 0
    /\ \/ /\ mode = "write"
          /\ raw = NoRaw
          /\ \E size \in 0..MaxCap :
                writer = cmGetWriter(Mem(size + GuardBytes, 170), size)
          /\ last = Call("cmGetWriter", NoWriter, NoReader)
       \/ /\ mode = "raw"
          /\ writer = NoWriter
          /\ \E s \in CraftedMessages, b \in {0, 68} :
                raw = [message |-> MemOf(s, GuardBytes, b), size |-> Len(s)]
          /\ last = Call("none", NoWriter, NoReader)

\* a write call leaves w: the field is logged when the writer has no error
Written(w, f) ==
    /\ writer' = w
    /\ log' = IF w.firstError = CM_ERROR_NONE
              THEN Append(log, [f EXCEPT !.off = writer.usedSize,
                                         !.end = w.usedSize])
              ELSE log
    /\ calls' = calls + 1
    /\ UNCHANGED <<reader, raw, mode, foreign, got, ret>>

WriteScalar ==
    /\ mode = "write" /\ calls < MaxOps /\ ~writer.fault
    /\ \E s \in Scalars : \E val \in ScalarValues(s[1], s[2]) :
          Written(cmWriteScalar(writer, s[1], s[2], val),
                  Field("scalar", s[1], s[2], U32(1), Value(val), 0, 0))
    /\ last' = Call("writeValue", writer, reader)

WriteTypedArray ==
    /\ mode = "write" /\ calls < MaxOps /\ ~writer.fault
    /\ \E itemType \in ItemTypes, itemSize \in ItemSizes,
          data \in DataPatterns, itemCount \in ItemCounts :
          Written(cmWriteTypedArray(writer, itemType, itemSize, data,
                                    itemCount),
                  Field("array", itemType, itemSize, itemCount, data, 0, 0))
    /\ last' = Call("cmWriteTypedArray", writer, reader)

WriteVersion ==
    /\ mode = "write" /\ calls < MaxOps /\ ~writer.fault
    /\ \E ver \in Versions :
          Written(cmWriteVersion(writer, ver),
                  Field("version", CM_VERSION, 4, U32(1), Value(ver), 0, 0))
    /\ last' = Call("cmWriteVersion", writer, reader)

\* the reader of the message written, or of its byte-swapped copy
GetReaderWritten ==
    /\ mode = "write" /\ writer.firstError = CM_ERROR_NONE /\ ~writer.fault
    /\ \E f \in BOOLEAN, crash \in BOOLEAN :
          /\ foreign' = f
          /\ reader' = cmGetReader(IF f THEN SwapMessage(writer.buffer, log)
                                   ELSE writer.buffer,
                                   writer.usedSize, crash)
    /\ mode' = "replay"
    /\ calls' = 0
    /\ last' = Call("cmGetReader", writer, reader)
    /\ UNCHANGED <<writer, raw, log, got, ret>>

GetReaderRaw ==
    /\ mode = "raw"
    /\ \E crash \in BOOLEAN :
          reader' = cmGetReader(raw.message, raw.size, crash)
    /\ mode' = "read"
    /\ last' = Call("cmGetReader", writer, reader)
    /\ UNCHANGED <<writer, raw, foreign, log, got, ret, calls>>

\* a read call may be made: in mode "replay" only the call for the next field
Reading == /\ ~reader.fault
           /\ \/ mode = "read" /\ calls < MaxOps
              \/ mode = "replay" /\ calls < Len(log)

NextField == log[calls + 1]

\* a read call leaves r and returns v
Returned(r, v) ==
    /\ reader' = r
    /\ ret' = v
    /\ got' = IF mode = "replay" THEN Append(got, v) ELSE got
    /\ calls' = calls + 1
    /\ UNCHANGED <<writer, raw, mode, foreign, log>>

ReadScalar ==
    /\ Reading
    /\ \E s \in IF mode = "read" THEN Scalars
                ELSE IF NextField.kind = "scalar"
                THEN {<<NextField.type, NextField.size>>} ELSE {} :
          LET x == cmReadScalar(reader, s[1], s[2]) IN Returned(x.r, x.ret)
    /\ last' = Call("readValue", writer, reader)

\* the reader of a written message leaves the write order: at a scalar or a
\* version that is the only field it reads a scalar of another type or
\* width; mode "stray" takes no more calls
ReadOtherScalar ==
    /\ Reading /\ mode = "replay" /\ Len(log) = 1
    /\ NextField.kind \in {"scalar", "version"}
    /\ \E s \in Scalars \ {<<NextField.type, NextField.size>>} :
          LET x == cmReadScalar(reader, s[1], s[2])
          IN  reader' = x.r /\ ret' = x.ret
    /\ mode' = "stray"
    /\ calls' = calls + 1
    /\ last' = Call("readValue", writer, reader)
    /\ UNCHANGED <<writer, raw, foreign, log, got>>

ReadTypedArray ==
    /\ Reading
    /\ \E a \in IF mode = "read"
                THEN ReadItemTypes \X ReadItemSizes \X MaxItemsRead
                ELSE IF NextField.kind = "array"
                THEN {NextField.type} \X {NextField.size}
                     \X {StoredCount(NextField), U32Max}
                ELSE {} :
          LET x == cmReadTypedArray(reader, a[1], a[2], a[3])
          IN  Returned(x.r, x.ret)
    /\ last' = Call("cmReadTypedArray", writer, reader)

PeekArraySize ==
    /\ Reading /\ mode = "read"
    /\ LET x == cmPeekArraySize(reader) IN Returned(x.r, Ret(x.n, <<>>))
    /\ last' = Call("cmPeekArraySize", writer, reader)

PeekStringLength ==
    /\ Reading /\ mode = "read"
    /\ LET x == cmPeekStringLength(reader) IN Returned(x.r, Ret(x.n, <<>>))
    /\ last' = Call("cmPeekStringLength", writer, reader)

ReadVersion ==
    /\ Reading
    /\ mode = "replay" => NextField.kind = "version"
    /\ LET x == cmReadVersion(reader) IN Returned(x.r, x.ret)
    /\ last' = Call("cmReadVersion", writer, reader)

Next ==
    \/ WriteScalar
    \/ WriteTypedArray
    \/ WriteVersion
    \/ GetReaderWritten
    \/ GetReaderRaw
    \/ ReadScalar
    \/ ReadOtherScalar
    \/ ReadTypedArray
    \/ PeekArraySize
    \/ PeekStringLength
    \/ ReadVersion

Spec == Init /\ [][Next]_vars

(***************************************************************************)
(* Properties.                                                             *)
(***************************************************************************)
\* every call for a logged field has been made on the reader
ReplayDone == mode = "replay" /\ calls = Len(log)

\* the log holds scalar writes only
ScalarLog == \A i \in 1..Len(log) : log[i].kind = "scalar"

\* the log holds writes of arrays of a non-character type with an item width
\* of 1, 2, 4 or 8 only
PlainArrayLog ==
    \A i \in 1..Len(log) :
       /\ log[i].kind = "array"
       /\ log[i].type # CM_TYPE_CHAR
       /\ log[i].size \in {1, 2, 4, 8}

\* the reads matching the fields from the i-th on, made on reader r with a
\* destination that holds any array: the reader they leave and the values
\* they return, up to a call that ends the program
RECURSIVE ReplayReads(_, _, _)
ReplayReads(r, fields, i) ==
    IF i > Len(fields) \/ r.fault THEN [r |-> r, got |-> <<>>]
    ELSE LET f == fields[i]
             x == IF f.kind = "scalar" THEN cmReadScalar(r, f.type, f.size)
                  ELSE IF f.kind = "array"
                  THEN cmReadTypedArray(r, f.type, f.size, U32Max)
                  ELSE cmReadVersion(r)
             rest == ReplayReads(x.r, fields, i + 1)
         IN  [r |-> rest.r, got |-> <<x.ret>> \o rest.got]

\* what reading the unswapped message in the write order returns
NativeReplay ==
    ReplayReads(cmGetReader(writer.buffer, writer.usedSize, FALSE), log, 1)

\* C1: scalar round trip.  When scalars only were written without error, the
\* reader over buffer[0..usedSize) that makes the same typed reads in the
\* same order returns the written values in order and ends with firstError
\* NONE and readSize = totalSize.
C1_ScalarRoundTrip ==
    (ReplayDone /\ ~foreign /\ ScalarLog) =>
        /\ \A i \in 1..Len(log) : got[i].bytes = log[i].data.bytes
        /\ reader.firstError = CM_ERROR_NONE
        /\ reader.readSize = reader.totalSize
        /\ ~reader.oob

\* C1 witness: the greatest 32-bit unsigned value and a 16-bit value were
\* written and read back
C1_Witness ==
    /\ ReplayDone /\ ~foreign /\ ScalarLog
    /\ Len(log) = 2 /\ log[1].size = 4 /\ log[2].size = 2
    /\ log[1].type = CM_TYPE_UINT
    /\ log[1].data.bytes = <<255, 255, 255, 255>>
    /\ got[1].bytes = log[1].data.bytes
    /\ reader.readSize = 10

\* C2: array round trip.  When arrays of a non-character type with an item
\* width of 1, 2, 4 or 8 only were written without error, the reader over
\* buffer[0..usedSize) that reads them in the same order, with the same type
\* and width and a destination holding at least count items, returns for each
\* array the written count and exactly the written elements, with firstError
\* NONE.
C2_ArrayRoundTrip ==
    (ReplayDone /\ ~foreign /\ PlainArrayLog) =>
        /\ reader.firstError = CM_ERROR_NONE
        /\ \A i \in 1..Len(log) :
              /\ got[i].n = log[i].count
              /\ U32IsSmall(log[i].count)
              /\ got[i].bytes = DataBytes(log[i].data,
                                          U32ToNat(log[i].count) * log[i].size)

\* C3: decodability.  When the writer's firstError is NONE after the last
\* write, the reader over buffer[0..usedSize) that makes the corresponding
\* read calls with the same arguments in the same order ends with firstError
\* NONE.
C3_Decodable ==
    (ReplayDone /\ ~foreign) => reader.firstError = CM_ERROR_NONE

\* C4: endianness symmetry.  Reading the byte-swapped copy of a message
\* written without error, in the write order, gives firstError NONE and the
\* values that reading the unswapped message gives.
C4_EndianSymmetry ==
    (mode = "replay" /\ foreign) =>
        /\ reader.firstError = CM_ERROR_NONE
        /\ ~reader.fault
        /\ got = SubSeq(NativeReplay.got, 1, calls)

\* C5: writer first error wins.  Once the writer's firstError is not NONE,
\* no later write call changes firstError.
C5_WriterFirstErrorWins ==
    [][writer.firstError # CM_ERROR_NONE
          => writer'.firstError = writer.firstError]_vars

\* C6: writer no-op after error.  Once the writer's firstError is not NONE,
\* every later write call leaves usedSize and every byte of the buffer, and
\* of the memory behind it, unchanged.
C6_WriterNoOpAfterError ==
    [][writer.firstError # CM_ERROR_NONE
          => /\ writer'.usedSize = writer.usedSize
             /\ writer'.buffer = writer.buffer
             /\ ~writer'.fault]_vars

\* C6 witness: a typed array write with valid arguments was made on a writer
\* that held an error and had room for the array
C6_Witness ==
    /\ mode = "write" /\ calls = 2
    /\ last.op = "cmWriteTypedArray" /\ last.werr = CM_ERROR_INVALID_ARG
    /\ writer.bufferSize >= 7 /\ writer.usedSize = 2

\* C7: reader first error wins.  Once the reader's firstError is not NONE,
\* from construction or from a read, no later call changes firstError.
C7_ReaderFirstErrorWins ==
    [][reader.firstError # CM_ERROR_NONE
          => reader'.firstError = reader.firstError]_vars

\* C8: reader no-op after error.  Once the reader's firstError is not NONE,
\* every later call returns the zero value or the count 0, copies nothing,
\* and leaves readSize and the message unchanged.
C8_ReaderNoOpAfterError ==
    [][(reader.firstError # CM_ERROR_NONE /\ calls' = calls + 1)
          => /\ ret'.n = U32(0)
             /\ \A k \in 1..Len(ret'.bytes) : ret'.bytes[k] = 0
             /\ reader'.readSize = reader.readSize
             /\ reader'.message = reader.message
             /\ ~reader'.fault]_vars

\* C8 witness: an array size peek was made at an array of two items on a
\* reader that held an error from a read
C8_Witness ==
    /\ mode = "read" /\ calls = 2
    /\ last.op = "cmPeekArraySize" /\ last.rerr = CM_ERROR_NO_VALUE
    /\ reader.readSize = 2 /\ reader.totalSize >= 7
    /\ Slice(reader.message, 2, 5) = <<68, 2, 0, 0, 0>>

\* C9: writer bounds.  In every state a writer reaches, usedSize <=
\* bufferSize and no byte at an index >= bufferSize has been written.
C9_WriterBounds ==
    mode = "write" => writer.usedSize <= writer.bufferSize /\ ~writer.oob

\* C10: reader bounds.  In every state a reader over any message bytes
\* reaches, readSize <= totalSize.
C10_ReaderBounds ==
    mode = "read" => reader.readSize <= reader.totalSize

\* the step is the write of the scalar val of type s[1] and width s[2]
ScalarWriteStep(s, val) ==
    /\ mode = "write" /\ last'.op = "writeValue"
    /\ writer' = cmWriteScalar(writer, s[1], s[2], val)

\* C11: space exhaustion.  A scalar write of width w on a writer without
\* error sets NO_SPACE when bufferSize - usedSize < 1 + w, leaving usedSize
\* and every byte unchanged, and succeeds otherwise.
C11_SpaceExhaustion ==
    [][(last'.op = "writeValue" /\ writer.firstError = CM_ERROR_NONE)
          => \A s \in Scalars : \A val \in ScalarValues(s[1], s[2]) :
                ScalarWriteStep(s, val)
                => IF writer.bufferSize - writer.usedSize < 1 + s[2]
                   THEN /\ writer'.firstError = CM_ERROR_NO_SPACE
                        /\ writer'.usedSize = writer.usedSize
                        /\ writer'.buffer = writer.buffer
                   ELSE /\ writer'.firstError = CM_ERROR_NONE
                        /\ writer'.usedSize = writer.usedSize + 1 + s[2]
                        /\ Slice(writer'.buffer, writer.usedSize, 1 + s[2])
                              = <<getTypeFlag(s[1], s[2])>> \o val
                        /\ ~writer'.oob]_vars

\* C11 witness: a scalar write failed for want of space on a writer that had
\* 4 free bytes, so the value was as wide as the free space or wider
C11_Witness ==
    /\ mode = "write" /\ last.op = "writeValue"
    /\ last.werr = CM_ERROR_NONE
    /\ writer.firstError = CM_ERROR_NO_SPACE
    /\ writer.bufferSize - writer.usedSize = 4 /\ calls = 1

\* the step is the read of a scalar of type s[1] and width s[2]
ScalarReadStep(s) ==
    /\ last'.op = "readValue" /\ calls' = calls + 1
    /\ Len(ret'.bytes) = s[2]
    /\ LET x == cmReadScalar(reader, s[1], s[2])
       IN  reader' = x.r /\ ret' = x.ret

\* the message of reader r holds at readSize a whole scalar field of type
\* t[1] and width t[2]
ScalarAt(r, t) ==
    /\ r.readSize + 1 + t[2] <= r.totalSize
    /\ Load(r.message, r.readSize) = getTypeFlag(t[1], t[2])

\* C12: type mismatch detection.  When the field at readSize is a scalar of
\* type t and width w, a read of a scalar of another type or width on a
\* reader without error sets NO_VALUE, returns zero and leaves readSize
\* unchanged.
C12_TypeMismatch ==
    [][(last'.op = "readValue" /\ reader.firstError = CM_ERROR_NONE)
          => \A t \in Scalars :
                ScalarAt(reader, t)
                => \A s \in Scalars \ {t} :
                      ScalarReadStep(s)
                      => /\ reader'.firstError = CM_ERROR_NO_VALUE
                         /\ ret' = Ret(U32(0), Zeros(s[2]))
                         /\ reader'.readSize = reader.readSize
                         /\ ~reader'.oob]_vars

\* C12 witness: a 64-bit unsigned value was written and a scalar of another
\* type or width was read at it
C12_Witness ==
    /\ mode = "stray" /\ Len(log) = 1 /\ calls = 1
    /\ log[1].kind = "scalar" /\ log[1].type = CM_TYPE_UINT
    /\ log[1].size = 8
    /\ last.op = "readValue" /\ last.rerr = CM_ERROR_NONE
    /\ reader.firstError = CM_ERROR_NO_VALUE /\ reader.readSize = 2

\* the message of reader r holds at readSize an array tag and a whole count
ArrayAt(r) ==
    /\ r.readSize + 1 + 4 <= r.totalSize
    /\ isArray(Load(r.message, r.readSize))

\* the count of the array at readSize
CountAt(r) == U32FromBytes(Slice(r.message, r.readSize + 1, 4))

\* C13: the array size peek is non-destructive.  The peek never changes
\* readSize or the message; at an array, on a reader without error, it
\* returns the stored count and leaves firstError NONE, so that consecutive
\* peeks return the same count.
C13_PeekNonDestructive ==
    [][last'.op = "cmPeekArraySize"
          => /\ reader'.readSize = reader.readSize
             /\ reader'.message = reader.message
             /\ (reader.firstError = CM_ERROR_NONE /\ ArrayAt(reader))
                   => /\ ret'.n = CountAt(reader)
                      /\ reader' = reader]_vars

\* C13 witness: two peeks in a row were made at an array of two items, and
\* the second returned 2
C13_Witness ==
    /\ mode = "read" /\ calls = 2 /\ last.op = "cmPeekArraySize"
    /\ last.rerr = CM_ERROR_NONE /\ reader.firstError = CM_ERROR_NONE
    /\ reader.readSize = 2 /\ ArrayAt(reader)
    /\ Load(reader.message, 2) = 68
    /\ ret.n = U32(2)

\* the step is the write of an array of count items of type itemType and
\* width itemSize
ArrayWriteStep(itemType, itemSize, data, itemCount) ==
    /\ mode = "write" /\ last'.op = "cmWriteTypedArray"
    /\ writer' = cmWriteTypedArray(writer, itemType, itemSize, data, itemCount)

\* the step is the read of an array of at most maxItems items of type
\* itemType and width itemSize
ArrayReadStep(itemType, itemSize, maxItems) ==
    /\ last'.op = "cmReadTypedArray" /\ calls' = calls + 1
    /\ LET x == cmReadTypedArray(reader, itemType, itemSize, maxItems)
       IN  reader' = x.r /\ ret' = x.ret

\* C14: invalid item width guard.  A typed array write or read with an
\* itemSize other than 1, 2, 4, 8 on a writer or reader without error sets
\* INVALID_ARG and leaves usedSize or readSize and every byte unchanged.
C14_InvalidWidthGuard ==
    [][/\ (last'.op = "cmWriteTypedArray"
           /\ writer.firstError = CM_ERROR_NONE)
          => \A itemType \in ItemTypes, itemSize \in ItemSizes \ {1, 2, 4, 8},
                data \in DataPatterns, itemCount \in ItemCounts :
                ArrayWriteStep(itemType, itemSize, data, itemCount)
                => /\ writer'.firstError = CM_ERROR_INVALID_ARG
                   /\ writer'.usedSize = writer.usedSize
                   /\ writer'.buffer = writer.buffer
       /\ (last'.op = "cmReadTypedArray" /\ mode = "read"
           /\ reader.firstError = CM_ERROR_NONE)
          => \A itemType \in ReadItemTypes,
                itemSize \in ReadItemSizes \ {1, 2, 4, 8},
                maxItems \in MaxItemsRead :
                ArrayReadStep(itemType, itemSize, maxItems)
                => /\ reader'.firstError = CM_ERROR_INVALID_ARG
                   /\ reader'.readSize = reader.readSize
                   /\ reader'.message = reader.message]_vars

\* the step is the write of the version ver
VersionWriteStep(ver) ==
    /\ mode = "write" /\ last'.op = "cmWriteVersion"
    /\ writer' = cmWriteVersion(writer, ver)

\* C15: version write and read.  A version write on a writer without error
\* and with at least 5 free bytes advances usedSize by 5 and stores the tag
\* 0x83 and the 4 bytes of the value; in every other case it changes no
\* byte.  The version read at the place of a written version returns the
\* value and advances readSize by 5.
C15_Version ==
    [][/\ last'.op = "cmWriteVersion"
          => \A ver \in Versions :
                VersionWriteStep(ver)
                => IF /\ writer.firstError = CM_ERROR_NONE
                      /\ writer.bufferSize - writer.usedSize >= 5
                   THEN /\ writer'.firstError = CM_ERROR_NONE
                        /\ writer'.usedSize = writer.usedSize + 5
                        /\ Slice(writer'.buffer, writer.usedSize, 5)
                              = <<CM_VERSION>> \o ver
                        /\ ~writer'.oob
                   ELSE /\ writer'.buffer = writer.buffer
                        /\ writer'.usedSize = writer.usedSize
                        /\ ~writer'.fault
       /\ (/\ last'.op = "cmReadVersion" /\ mode = "replay"
           /\ reader.firstError = CM_ERROR_NONE
           /\ reader.readSize = NextField.off)
          => /\ ret'.n = U32FromBytes(NextField.data.bytes)
             /\ reader'.readSize = reader.readSize + 5
             /\ reader'.firstError = CM_ERROR_NONE]_vars

\* C15 witness: the version 157 was written after a scalar and read back
C15_Witness ==
    /\ ReplayDone /\ Len(log) = 2 /\ log[2].kind = "version"
    /\ log[1].kind = "scalar"
    /\ last.op = "cmReadVersion" /\ last.rerr = CM_ERROR_NONE
    /\ log[2].data.bytes = <<157, 0, 0, 0>>
    /\ ret.n = U32(157)
    /\ reader.readSize = writer.usedSize
    /\ Load(writer.buffer, writer.usedSize - 5) = CM_VERSION

\* C16: writer construction.  Over a buffer of fewer than 2 bytes the new
\* writer has usedSize 0 and NO_SPACE and no byte was stored; otherwise it
\* has no error, usedSize 2, the marker in the first two bytes and every
\* other byte as before (the memory held 0xAA).
C16_WriterConstruction ==
    (mode = "write" /\ calls = 0) =>
        IF writer.bufferSize < 2
        THEN /\ writer.usedSize = 0
             /\ writer.firstError = CM_ERROR_NO_SPACE
             /\ writer.buffer = Mem(MemLen(writer.buffer), 170)
        ELSE /\ writer.usedSize = 2
             /\ writer.firstError = CM_ERROR_NONE
             /\ Slice(writer.buffer, 0, 2) = ENDIAN_MARK
             /\ \A i \in DOMAIN writer.buffer \ {0, 1} :
                   writer.buffer[i] = 170

\* C16 witness: a writer was created over a buffer of 1 byte
C16_Witness ==
    /\ mode = "write" /\ calls = 0 /\ last.op = "cmGetWriter"
    /\ writer.bufferSize = 1
    /\ writer.firstError = CM_ERROR_NO_SPACE

\* the reader was created and has taken no call
ReaderCreated == mode \in {"read", "replay"} /\ calls = 0

\* C17: reader construction.  A new reader has NO_ENDIAN and readSize 0 when
\* the length is below 2, with no byte outside the span inspected, or when
\* the first two bytes are neither marker; with the native marker it has no
\* error and readSize 2.
C17_ReaderConstruction ==
    ReaderCreated =>
        IF reader.totalSize < 2
        THEN /\ reader.firstError = CM_ERROR_NO_ENDIAN
             /\ reader.readSize = 0
             /\ ~reader.oob
        ELSE IF Slice(reader.message, 0, 2) = ENDIAN_MARK
        THEN reader.firstError = CM_ERROR_NONE /\ reader.readSize = 2
        ELSE Slice(reader.message, 0, 2) # ENDIAN_INV_MARK
             => /\ reader.firstError = CM_ERROR_NO_ENDIAN
                /\ reader.readSize = 0

\* C18: a scalar read requires the exact scalar tag.  On a reader without
\* error, a read of a scalar of type t and width w at a tag byte other than
\* the composed tag of (t, w), such as one with a bit of bits 5-7 set, sets
\* NO_VALUE, returns zero and leaves readSize unchanged.
C18_ExactScalarTag ==
    [][(/\ last'.op = "readValue"
        /\ reader.firstError = CM_ERROR_NONE
        /\ reader.readSize < reader.totalSize)
          => \A s \in Scalars :
                (/\ ScalarReadStep(s)
                 /\ Load(reader.message, reader.readSize)
                       # getTypeFlag(s[1], s[2]))
                => /\ reader'.firstError = CM_ERROR_NO_VALUE
                   /\ ret' = Ret(U32(0), Zeros(s[2]))
                   /\ reader'.readSize = reader.readSize]_vars

\* C19: scalar read bounds check.  On a reader without error, a read of a
\* scalar of width w with totalSize - readSize < 1 + w sets NO_VALUE,
\* returns zero, leaves readSize unchanged and reads no byte at an index >=
\* totalSize.
C19_ScalarReadBounds ==
    [][(last'.op = "readValue" /\ reader.firstError = CM_ERROR_NONE)
          => \A s \in Scalars :
                (/\ ScalarReadStep(s)
                 /\ reader.totalSize - reader.readSize < 1 + s[2])
                => /\ reader'.firstError = CM_ERROR_NO_VALUE
                   /\ ret' = Ret(U32(0), Zeros(s[2]))
                   /\ reader'.readSize = reader.readSize
                   /\ reader'.oob = reader.oob]_vars

\* the arguments <<itemType, itemSize, maxItems>> an array read of the model
\* is made with, those with an item type and width that compose a tag
ArrayReadArgs ==
    {a \in IF mode = "read"
           THEN ReadItemTypes \X ReadItemSizes \X MaxItemsRead
           ELSE IF mode = "replay" /\ calls < Len(log)
           THEN {NextField.type} \X {NextField.size}
                \X {StoredCount(NextField), U32Max}
           ELSE {} :
        a[2] \in {1, 2, 4, 8} /\ a[1] \in 4..20}

\* C20: array read failure modes.  On a reader without error, an array read
\* at a tag other than the composed array tag of the item type and width
\* sets NO_VALUE, and one at that tag with maxItems below the stored count
\* sets NO_SPACE; both return 0, copy nothing and leave readSize unchanged.
\* A read that succeeds advances readSize by 1 + 4 + count * itemSize.
C20_ArrayReadFailures ==
    [][(last'.op = "cmReadTypedArray" /\ reader.firstError = CM_ERROR_NONE)
          => \A a \in ArrayReadArgs :
                ArrayReadStep(a[1], a[2], a[3])
                => LET flag == getTypeFlag(BitOr(CM_ARRAY, a[1]), a[2])
                       tagged == /\ reader.readSize + 1 + 4 <= reader.totalSize
                                 /\ Load(reader.message, reader.readSize) = flag
                   IN  /\ (/\ reader.readSize < reader.totalSize
                           /\ Load(reader.message, reader.readSize) # flag)
                          => /\ reader'.firstError = CM_ERROR_NO_VALUE
                             /\ ret' = Ret(U32(0), <<>>)
                             /\ reader'.readSize = reader.readSize
                       /\ (tagged /\ U32Less(a[3], CountAt(reader)))
                          => /\ reader'.firstError = CM_ERROR_NO_SPACE
                             /\ ret' = Ret(U32(0), <<>>)
                             /\ reader'.readSize = reader.readSize
                       /\ (reader'.firstError = CM_ERROR_NONE
                           /\ ~reader'.fault)
                          => /\ tagged /\ ~U32Less(a[3], CountAt(reader))
                             /\ U32IsSmall(CountAt(reader))
                             /\ reader'.readSize = reader.readSize + 1 + 4
                                   + U32ToNat(CountAt(reader)) * a[2]]_vars

\* an array of itemCount items of width itemSize and type itemType, with the
\* NUL a character array adds, fits avail bytes, by the arithmetic of the
\* integers: avail stays far below 2^16, so no count of 2^16 or more fits
ArrayFits(avail, itemType, itemSize, itemCount) ==
    /\ U32IsSmall(itemCount)
    /\ 1 + 4 + itemSize * (itemCount[2]
                           + IF itemType = CM_TYPE_CHAR THEN 1 ELSE 0)
          <= avail

\* C21: array write space check.  An array write with an item width of 1, 2,
\* 4 or 8 on a writer without error, whose 1 + 4 + itemSize * storedCount
\* bytes (storedCount is count, count + 1 for a character array; no
\* wrapping) exceed bufferSize - usedSize, sets NO_SPACE and changes neither
\* usedSize nor a byte of the buffer; with that space it succeeds.
C21_ArraySpaceCheck ==
    [][(last'.op = "cmWriteTypedArray"
        /\ writer.firstError = CM_ERROR_NONE)
          => \A itemType \in ItemTypes \cap 4..20 :
             \A itemSize \in ItemSizes \cap {1, 2, 4, 8} :
             \A data \in DataPatterns : \A itemCount \in ItemCounts :
                ArrayWriteStep(itemType, itemSize, data, itemCount)
                => IF ArrayFits(writer.bufferSize - writer.usedSize,
                                itemType, itemSize, itemCount)
                   THEN /\ writer'.firstError = CM_ERROR_NONE
                        /\ ~writer'.oob
                   ELSE /\ writer'.firstError = CM_ERROR_NO_SPACE
                        /\ writer'.usedSize = writer.usedSize
                        /\ writer'.buffer = writer.buffer]_vars

\* the bytes the wire format gives a logged field: tag and value of a
\* scalar or a version, tag, count and storedCount items of an array
\* (defined for a stored count below 2^16)
FieldLength(f) ==
    IF f.kind = "array" THEN 1 + 4 + f.size * StoredCount(f)[2]
    ELSE 1 + f.size

RECURSIVE LengthOfFields(_, _)
LengthOfFields(fields, i) ==
    IF i > Len(fields) THEN 0
    ELSE FieldLength(fields[i]) + LengthOfFields(fields, i + 1)

\* C22: length accounting.  After writes that end with firstError NONE,
\* usedSize is 2 + the sum of 1 + width per scalar, 5 per version and
\* 1 + 4 + itemSize * storedCount per array, storedCount being the count
\* stored in the message.
C22_LengthAccounting ==
    (mode = "write" /\ writer.firstError = CM_ERROR_NONE /\ ~writer.fault)
    => /\ \A i \in 1..Len(log) :
             log[i].kind = "array"
             => /\ Slice(writer.buffer, log[i].off + 1, 4)
                      = U32Bytes(StoredCount(log[i]))
                /\ U32IsSmall(StoredCount(log[i]))
       /\ writer.usedSize = 2 + LengthOfFields(log, 1)

\* the reader was created over a span of at least 2 bytes that begins with
\* the marker in inverse byte order
InverseReaderCreated ==
    /\ ReaderCreated
    /\ \/ mode = "replay" /\ foreign
       \/ /\ mode = "read" /\ raw.size >= 2
          /\ Slice(raw.message, 0, 2) = ENDIAN_INV_MARK

\* C23: the conversion pass stays in bounds.  Creating a reader over a span
\* that begins with the marker in inverse byte order accesses bytes of the
\* span only and returns with firstError NONE or NO_ENDIAN.
C23_NormalizerInBounds ==
    InverseReaderCreated
    => /\ ~reader.oob
       /\ ~reader.fault
       /\ reader.firstError \in {CM_ERROR_NONE, CM_ERROR_NO_ENDIAN}

\* the type codes of the primitive type table
TypeCodes ==
    {CM_TYPE_UINT, CM_TYPE_INT, CM_TYPE_FLOAT, CM_TYPE_BOOL, CM_TYPE_CHAR}

\* flag is the tag of a scalar of a type of the table, of an array, or of the
\* version
KnownTag(flag) ==
    \/ flag \div 32 = 0 /\ splitTypeFlagType(flag) \in TypeCodes
    \/ isArray(flag)
    \/ isVersion(flag)

\* The conversion pass over the bytes [d, end) of a message m that is still
\* in inverse byte order comes to a tag that is not a known one, every field
\* before it lying whole within the message.
RECURSIVE ReachesUnknownTag(_, _, _)
ReachesUnknownTag(m, d, end) ==
    IF d >= end THEN FALSE
    ELSE LET flag == Load(m, d)
             itemLen == IF isVersion(flag) THEN 4 ELSE splitTypeFlagLen(flag)
             itemCount == IF isArray(flag) /\ d + 1 + 4 <= end
                          THEN U32FromBytes(Slice(inverseByteOrder(m, d + 1, 4),
                                                  d + 1, 4))
                          ELSE U32(1)
             next == IF isArray(flag) THEN d + 1 + 4 + itemCount[2] * itemLen
                     ELSE d + 1 + itemLen
         IN  IF ~KnownTag(flag) THEN TRUE
             ELSE IF ~U32IsSmall(itemCount) \/ next > end THEN FALSE
             ELSE ReachesUnknownTag(m, next, end)

\* C24: the conversion pass rejects unknown tags.  Creating a reader over a
\* message with the marker in inverse byte order sets NO_ENDIAN when the pass
\* comes to a tag that is neither the tag of a scalar of a type of the table,
\* nor an array tag, nor the version tag.
C24_UnknownTagRejected ==
    (/\ InverseReaderCreated /\ mode = "read"
     /\ ReachesUnknownTag(raw.message, 2, raw.size))
    => /\ reader.firstError = CM_ERROR_NO_ENDIAN
       /\ reader.readSize = 0
       /\ ~reader.fault

\* a character array was written first, and the reader over the message
\* written has made only the array read for it
CharArrayRead ==
    /\ mode = "replay" /\ ~foreign /\ calls = 1
    /\ log[1].kind = "array" /\ log[1].type = CM_TYPE_CHAR
    /\ last.op = "cmReadTypedArray"

\* C25: a character array read returns the string length.  After a character
\* array of n characters is written, the array read at its place returns n,
\* the value the string length peek returns there, and leaves readSize
\* behind the stored array and its NUL.
C25_CharArrayReadLength ==
    CharArrayRead
    => /\ reader.firstError = CM_ERROR_NONE
       /\ ret.n = log[1].count
       /\ ret.n = cmPeekStringLength(cmGetReader(writer.buffer,
                                                 writer.usedSize, FALSE)).n
       /\ reader.readSize = log[1].end

\* the message of reader r holds at readSize the version tag and 4 bytes
VersionAt(r) ==
    /\ r.readSize + 1 + 4 <= r.totalSize
    /\ Load(r.message, r.readSize) = CM_VERSION

\* C26: the version tag is no scalar tag.  On a reader without error, every
\* scalar read at a version field sets NO_VALUE, returns zero and leaves
\* readSize unchanged; so does the version read at a 4-byte unsigned scalar,
\* and where fewer than 5 bytes remain.
C26_VersionTagSeparate ==
    [][/\ (/\ last'.op = "readValue"
           /\ reader.firstError = CM_ERROR_NONE
           /\ VersionAt(reader))
          => \A s \in Scalars :
                ScalarReadStep(s)
                => /\ reader'.firstError = CM_ERROR_NO_VALUE
                   /\ ret' = Ret(U32(0), Zeros(s[2]))
                   /\ reader'.readSize = reader.readSize
       /\ (/\ last'.op = "cmReadVersion"
           /\ reader.firstError = CM_ERROR_NONE
           /\ \/ ScalarAt(reader, <<CM_TYPE_UINT, 4>>)
              \/ reader.readSize + 5 > reader.totalSize)
          => /\ reader'.firstError = CM_ERROR_NO_VALUE
             /\ ret' = Ret(U32(0), <<>>)
             /\ reader'.readSize = reader.readSize]_vars

\* C26 witness: a version was written and a 4-byte scalar was read at it
C26_Witness ==
    /\ mode = "stray" /\ Len(log) = 1 /\ calls = 1
    /\ log[1].kind = "version"
    /\ VersionAt([reader EXCEPT !.firstError = CM_ERROR_NONE])
    /\ last.op = "readValue" /\ last.rerr = CM_ERROR_NONE
    /\ reader.firstError = CM_ERROR_NO_VALUE /\ reader.readSize = 2
    /\ ret = Ret(U32(0), Zeros(4))

\* the calls a reader takes
ReadCalls ==
    {"readValue", "cmReadTypedArray", "cmPeekArraySize",
     "cmPeekStringLength", "cmReadVersion"}

\* C27: the reader leaves the message unchanged outside the conversion.
\* Creating a reader over a message with the native marker changes no byte
\* of it, and no scalar read, array read, peek or version read on a reader,
\* converted or not, changes a byte of the message.
C27_MessageUnchanged ==
    [][/\ (/\ mode = "raw" /\ last'.op = "cmGetReader"
           /\ raw.size >= 2 /\ Slice(raw.message, 0, 2) = ENDIAN_MARK)
          => reader'.message = raw.message
       /\ (mode = "write" /\ last'.op = "cmGetReader" /\ ~foreign')
          => reader'.message = writer.buffer
       /\ last'.op \in ReadCalls
          => reader'.message = reader.message]_vars

\* C27 witness: a 4-byte scalar and a second field were written and read
\* back from the message as written
C27_Witness ==
    /\ ReplayDone /\ ~foreign /\ Len(log) = 2
    /\ log[1].kind = "scalar" /\ log[1].size = 4
    /\ last.op \in ReadCalls
    /\ reader.firstError = CM_ERROR_NONE
    /\ reader.readSize = reader.totalSize
    /\ reader.message = writer.buffer

\* the calls a writer takes
WriteCalls == {"writeValue", "cmWriteTypedArray", "cmWriteVersion"}

\* C28: the writer is append-only.  A scalar, array or version write leaves
\* usedSize not below its value before the call and every byte at an index
\* below that value unchanged; a version write changes no byte but the 5 it
\* appends, its tag included, and none when the writer had an error.
C28_AppendOnly ==
    [][last'.op \in WriteCalls
          => /\ writer'.usedSize >= writer.usedSize
             /\ \A i \in 0..(writer.usedSize - 1) :
                   Load(writer'.buffer, i) = Load(writer.buffer, i)
             /\ last'.op = "cmWriteVersion"
                => /\ \A i \in DOMAIN writer.buffer :
                         i >= writer.usedSize + 5
                         => Load(writer'.buffer, i) = Load(writer.buffer, i)
                   /\ writer.firstError # CM_ERROR_NONE
                      => writer'.buffer = writer.buffer]_vars

\* C28 witness: a version was written behind a 2-byte scalar, whose bytes
\* are as written
C28_Witness ==
    /\ mode = "write" /\ calls = 2 /\ Len(log) = 2
    /\ writer.firstError = CM_ERROR_NONE
    /\ log[1].kind = "scalar" /\ log[1].size = 2
    /\ log[2].kind = "version"
    /\ last.op = "cmWriteVersion"
    /\ writer.usedSize = 10
    /\ Slice(writer.buffer, 2, 3)
          = <<getTypeFlag(log[1].type, 2)>> \o log[1].data.bytes
    /\ Load(writer.buffer, 5) = CM_VERSION

=============================================================================
